---- MODULE Spec2Model ----
(***************************************************************************)
(* The 8-puzzle solver: the Board value (src/src/board.rs), the A* search  *)
(* over it (src/src/a_star.rs) and the terminal application that runs one  *)
(* search per worker thread (src/src/main.rs).                             *)
(*                                                                         *)
(* A board is a tuple of rows, each a tuple of cells; a cell is None or a  *)
(* tile label.  The program's board is 3 x 3.  The frontier can only be    *)
(* drained, and None returned, by expanding every board of a connected     *)
(* component (181440 boards for 3 x 3), so the model also instantiates the *)
(* same code on the 2 x 2 board (12 boards per component): every loop      *)
(* bound of the source that reads 3 or 8 is taken from the board's side.   *)
(***************************************************************************)
EXTENDS Integers, Sequences, FiniteSets, Bags, TLC

\* ---------------------------------------------------------------- bounds

\* Start boards of the 3 x 3 instance: those within MaxScramble moves of the goal.
MaxScramble == 6

\* The boards the application edits: those within AppScramble moves of AppSeeds.
AppScramble == 0

\* Cell writes per run of the application.
MaxEdits == 2

\* Searches started per run of the application.
MaxSearches == 2

\* ------------------------------------------------------------- board.rs

\* Option<i64>::None, the blank cell (labels are 1..8, so 0 is free to stand for it).
None == 0

\* The side of the square grid: self.b.len().
Side(board) == Len(board)

At(board, pos) == board[pos[1] + 1][pos[2] + 1]

\* The k-th position visited by the nested loops "for r in 0..3 { for c in 0..3 {".
ScanPos(board, k) == <<k \div Side(board), k % Side(board)>>

\* The Option<(usize, usize)> a lookup returns is <<>> for None and <<pos>> for
\* Some(pos).  The scan returns at the first cell that matches.
RECURSIVE FindNumberFrom(_, _, _)
FindNumberFrom(board, number, k) ==
    IF k >= Side(board) * Side(board) THEN <<>>
    ELSE IF At(board, ScanPos(board, k)) # None /\ At(board, ScanPos(board, k)) = number
         THEN <<ScanPos(board, k)>>
         ELSE FindNumberFrom(board, number, k + 1)

find_number(board, number) == FindNumberFrom(board, number, 0)

RECURSIVE FindEmptyFrom(_, _)
FindEmptyFrom(board, k) ==
    IF k >= Side(board) * Side(board) THEN <<>>
    ELSE IF At(board, ScanPos(board, k)) = None
         THEN <<ScanPos(board, k)>>
         ELSE FindEmptyFrom(board, k + 1)

find_empty_cell(board) == FindEmptyFrom(board, 0)

Abs(x) == IF x < 0 THEN -x ELSE x

\* The last label distance looks up: 8 on the 3 x 3 board.
LastLabel(board) == Side(board) * Side(board) - 1

\* LabelDistance with .0 and .1 of the other location exchanged.
LabelDistanceTransposed(self, other_board, number) ==
    LET self_location == find_number(self, number)[1]
        other_board_location == find_number(other_board, number)[1]
    IN  Abs(self_location[1] - other_board_location[2])
        + Abs(self_location[2] - other_board_location[1])

\* LabelDistance as the squared Euclidean distance of the label.
LabelDistanceSquared(self, other_board, number) ==
    LET self_location == find_number(self, number)[1]
        other_board_location == find_number(other_board, number)[1]
    IN  (self_location[1] - other_board_location[1])
            * (self_location[1] - other_board_location[1])
        + (self_location[2] - other_board_location[2])
            * (self_location[2] - other_board_location[2])

\* LabelDistance with .abs() left off the row term.
LabelDistanceSigned(self, other_board, number) ==
    LET self_location == find_number(self, number)[1]
        other_board_location == find_number(other_board, number)[1]
    IN  (self_location[1] - other_board_location[1])
        + Abs(self_location[2] - other_board_location[2])

\* The body of "for number in 1..=8": the Manhattan distance of one label.
LabelDistance(self, other_board, number) ==
    LET self_location == find_number(self, number)[1]
        other_board_location == find_number(other_board, number)[1]
    IN  Abs(self_location[1] - other_board_location[1])
        + Abs(self_location[2] - other_board_location[2])

RECURSIVE DistanceFrom(_, _, _, _)
DistanceFrom(self, other_board, number, total_distance) ==
    IF number > LastLabel(self) THEN total_distance
    ELSE DistanceFrom(self, other_board, number + 1,
                      total_distance + LabelDistance(self, other_board, number))

distance(self, other_board) == DistanceFrom(self, other_board, 1, 0)

\* copy_and_swap without temp: the second write reads the cell just written.
copy_and_swapNoTemp(board, src_pos, dest_pos) ==
    LET b1 == [board EXCEPT ![src_pos[1] + 1][src_pos[2] + 1] = At(board, dest_pos)]
    IN  [b1 EXCEPT ![dest_pos[1] + 1][dest_pos[2] + 1] = At(b1, src_pos)]

\* copy_and_swap without its first write: the tile at dest_pos is overwritten.
copy_and_swapHalf(board, src_pos, dest_pos) ==
    [board EXCEPT ![dest_pos[1] + 1][dest_pos[2] + 1] = At(board, src_pos)]

copy_and_swap(board, src_pos, dest_pos) ==
    LET temp == At(board, src_pos)
        b1 == [board EXCEPT ![src_pos[1] + 1][src_pos[2] + 1] = At(board, dest_pos)]
    IN  [b1 EXCEPT ![dest_pos[1] + 1][dest_pos[2] + 1] = temp]

\* The neighbour offsets listed clockwise: up, right, down, left.
neighborsClockwise == <<<<-1, 0>>, <<0, 1>>, <<1, 0>>, <<0, -1>>>>

\* The neighbour offsets, in the order the source lists them.
neighbors == <<<<-1, 0>>, <<0, -1>>, <<0, 1>>, <<1, 0>>>>

RECURSIVE NextStatesFrom(_, _, _)
NextStatesFrom(board, empty_cell_location, i) ==
    IF i > Len(neighbors) THEN <<>>
    ELSE LET new_r == empty_cell_location[1] + neighbors[i][1]
             new_c == empty_cell_location[2] + neighbors[i][2]
             rest == NextStatesFrom(board, empty_cell_location, i + 1)
         IN  IF new_r < 0 \/ new_r >= Side(board) THEN rest
             ELSE IF new_c < 0 \/ new_c >= Side(board) THEN rest
             ELSE <<copy_and_swap(board, empty_cell_location, <<new_r, new_c>>)>> \o rest

get_possible_next_states(board) ==
    NextStatesFrom(board, find_empty_cell(board)[1], 1)

\* ------------------------------------------------------------ a_star.rs

VARIABLES
    side,            \* the side of the grid of this run (3 in the program)
    starting_board,  \* search's argument
    queue,           \* the BinaryHeap<State>, a bag of states
    visited,         \* the HashSet<Board>
    current,         \* the state popped last: <<>> before the first pop
    ret              \* search's return value: <<>> while it runs, then <<result>>

searchVars == <<starting_board, queue, visited, current, ret>>

\* main.rs: the fields of App, and what the process holds besides.
VARIABLES
    mode,           \* AppMode: "Input", "Searching" or "Result"
    input_board,
    cursor_pos,     \* <<row, col>>
    error_msg,      \* Option<String>: <<>> or <<message>>
    rx_result,      \* Option<Receiver<..>>: <<>> or <<i>>, the receiver of channel i
    spinner_idx,
    solution_path,
    current_step,
    threads,        \* the worker threads spawned so far, in order
    chans,          \* channel i is the one created for thread i: the messages
                    \* in it, whether its Receiver and its Sender are still
                    \* held, and how many messages were ever put in it
    edits,          \* the number of cell writes so far
    exited          \* the main loop was left, and the process ended

appVars == <<mode, input_board, cursor_pos, error_msg, rx_result, spinner_idx,
             solution_path, current_step, threads, chans, edits, exited>>

vars == <<side, searchVars, appVars>>

\* The goal board, and its 2 x 2 counterpart: the labels in row-major order,
\* then the blank.
FINISHED3 == <<<<1, 2, 3>>, <<4, 5, 6>>, <<7, 8, None>>>>
FINISHED2 == <<<<1, 2>>, <<3, None>>>>

FINISHED == IF side = 3 THEN FINISHED3 ELSE FINISHED2

\* Option<Vec<Board>>.
NoPath == [some |-> FALSE, path |-> <<>>]
SomePath(path) == [some |-> TRUE, path |-> path]

\* i64::cmp and Ordering::then_with.
Icmp(a, b) == IF a < b THEN "Less" ELSE IF a = b THEN "Equal" ELSE "Greater"
then_with(first, second) == IF first = "Equal" THEN second ELSE first

\* The two numbers impl Ord compares: f, and board.distance(&FINISHED), which is
\* evaluated once per state here and at each comparison in the source.
OrdKey(state) == [f |-> state.f, h |-> distance(state.board, FINISHED)]

\* impl Ord without the reversal: the max-heap then pops the greatest f.
cmpForward(self, other) ==
    then_with(Icmp(self.f, other.f), Icmp(self.h, other.h))

\* impl Ord with the tie-break not reversed: among equal f the greatest distance.
cmpTieForward(self, other) ==
    then_with(Icmp(other.f, self.f), Icmp(self.h, other.h))

\* impl Ord for State, on the keys of self and other: the comparison is reversed,
\* so that the max-heap pops the least f, and among those the least distance.
cmp(self, other) ==
    then_with(Icmp(other.f, self.f), Icmp(other.h, self.h))

\* A pop that takes any state of the heap, whatever its key.
AnyOf(keyed) == {p[1] : p \in keyed}

\* The states of a set of <<state, key>> pairs that compare Less than no other.
GreatestOf(keyed) ==
    {p[1] : p \in {p \in keyed : \A t \in keyed : cmp(p[2], t[2]) # "Less"}}

\* BinaryHeap::pop returns a greatest element; which of several equal ones it
\* returns is decided by the heap's layout, and is any of them here.  The keys
\* are bound as one value, so that each distance is computed once per pop.
Greatest(q) ==
    UNION {GreatestOf(keyed) : keyed \in {{<<s, OrdKey(s)>> : s \in BagToSet(q)}}}

\* A peek: the state is read and left in the heap.
PopFromPeek(q, state) == q

PopFrom(q, state) == q (-) SetToBag({state})

\* The seed without the starting board in its path.
SeedStateEmptyPath(board) ==
    [board |-> board, path |-> <<>>, f |-> distance(board, FINISHED), g |-> 0]

\* The State seeded for the starting board.
SeedState(board) ==
    [board |-> board, path |-> <<board>>, f |-> distance(board, FINISHED), g |-> 0]

\* NextState with g = current.g: the move not counted.
NextStateSameG(cur, next_board) ==
    LET g == cur.g
        h == distance(next_board, FINISHED)
        f == g + h
    IN  [board |-> next_board, path |-> Append(cur.path, next_board), g |-> g, f |-> f]

\* NextState with f = h: the moves made so far left out of the priority.
NextStateGreedy(cur, next_board) ==
    LET g == cur.g + 1
        h == distance(next_board, FINISHED)
        f == h
    IN  [board |-> next_board, path |-> Append(cur.path, next_board), g |-> g, f |-> f]

\* NextState without next_path.push(next_board).
NextStateStalePath(cur, next_board) ==
    LET g == cur.g + 1
        h == distance(next_board, FINISHED)
        f == g + h
    IN  [board |-> next_board, path |-> cur.path, g |-> g, f |-> f]

\* The State built for one successor of the state being expanded.
NextState(cur, next_board) ==
    LET g == cur.g + 1
        h == distance(next_board, FINISHED)
        f == g + h
    IN  [board |-> next_board, path |-> Append(cur.path, next_board), g |-> g, f |-> f]

\* The for loop with a test against visited before each push.
RECURSIVE PushAllUnvisited(_, _, _, _)
PushAllUnvisited(q, cur, next_boards, i) ==
    IF i > Len(next_boards) THEN q
    ELSE IF next_boards[i] \in visited \cup {cur.board}
         THEN PushAllUnvisited(q, cur, next_boards, i + 1)
         ELSE PushAllUnvisited(q (+) SetToBag({NextState(cur, next_boards[i])}),
                               cur, next_boards, i + 1)

\* The for loop over next_boards: one push per successor, in order.
RECURSIVE PushAll(_, _, _, _)
PushAll(q, cur, next_boards, i) ==
    IF i > Len(next_boards) THEN q
    ELSE PushAll(q (+) SetToBag({NextState(cur, next_boards[i])}), cur, next_boards, i + 1)

Expanded(q, cur) == PushAll(q, cur, get_possible_next_states(cur.board), 1)

IsGoal(state) == distance(state.board, FINISHED) = 0

\* The state at the head of the while loop, after the seed was pushed.
SearchInit(board) ==
    /\ starting_board = board
    /\ queue = SetToBag({SeedState(board)})
    /\ visited = {}
    /\ current = <<>>
    /\ ret = <<>>

Running == ret = <<>>

\* One iteration that pops a state whose board was expanded before: continue.
PopStale ==
    /\ Running
    /\ \E state \in Greatest(queue) :
        /\ state.board \in visited
        /\ current' = <<state>>
        /\ queue' = PopFrom(queue, state)
        /\ UNCHANGED <<side, starting_board, visited, ret, appVars>>

\* One iteration that pops a state on the goal board: return Some(current.path).
PopGoal ==
    /\ Running
    /\ \E state \in Greatest(queue) :
        /\ state.board \notin visited
        /\ IsGoal(state)
        /\ current' = <<state>>
        /\ queue' = PopFrom(queue, state)
        /\ ret' = <<SomePath(state.path)>>
        /\ UNCHANGED <<side, starting_board, visited, appVars>>

\* One iteration that expands the popped state.
PopExpand ==
    /\ Running
    /\ \E state \in Greatest(queue) :
        /\ state.board \notin visited
        /\ ~IsGoal(state)
        /\ current' = <<state>>
        /\ visited' = visited \cup {state.board}
        /\ \E next_boards \in {get_possible_next_states(state.board)} :
            queue' = PushAll(PopFrom(queue, state), state, next_boards, 1)
        /\ UNCHANGED <<side, starting_board, ret, appVars>>

\* The loop ends on an empty queue: return None.
Exhausted ==
    /\ Running
    /\ queue = EmptyBag
    /\ ret' = <<NoPath>>
    /\ UNCHANGED <<side, starting_board, queue, visited, current, appVars>>

\* search as the worker thread calls it: the same loop run to its return, with
\* one fixed choice among equal greatest states.
RECURSIVE SearchLoop(_, _)
SearchLoop(q, seen) ==
    IF q = EmptyBag THEN NoPath
    ELSE LET state == CHOOSE s \in Greatest(q) : TRUE
         IN  IF state.board \in seen THEN SearchLoop(PopFrom(q, state), seen)
             ELSE IF IsGoal(state) THEN SomePath(state.path)
             ELSE SearchLoop(Expanded(PopFrom(q, state), state), seen \cup {state.board})

search(board) == SearchLoop(SetToBag({SeedState(board)}), {})

\* ------------------------------------------------------ the start boards

\* The positions of a board, and the position of its blank.
Positions(board) == (0 .. Side(board) - 1) \X (0 .. Side(board) - 1)
BlankAt(board) == CHOOSE p \in Positions(board) : At(board, p) = None

\* A legal move slides one tile orthogonally next to the blank into it: the
\* boards one legal move from a board.
LegalMoves(board) ==
    {[board EXCEPT ![BlankAt(board)[1] + 1][BlankAt(board)[2] + 1] = At(board, q),
                   ![q[1] + 1][q[2] + 1] = None] :
        q \in {p \in Positions(board) :
                Abs(p[1] - BlankAt(board)[1]) + Abs(p[2] - BlankAt(board)[2]) = 1}}

\* The boards within k legal moves of the boards of set S.
RECURSIVE Within(_, _)
Within(S, k) ==
    IF k = 0 THEN S ELSE Within(S \cup UNION {LegalMoves(b) : b \in S}, k - 1)

\* Every well-formed 2 x 2 board: the three labels once each and one blank.
SmallBoards ==
    {b \in [1 .. 2 -> [1 .. 2 -> 0 .. 3]] :
        \A v \in 0 .. 3 : \E r \in 1 .. 2, c \in 1 .. 2 : b[r][c] = v}

Scrambled == Within({FINISHED3}, MaxScramble)

Starts(n) == IF n = 3 THEN Scrambled ELSE SmallBoards

\* The grid sides instantiated: the program's, and the one whose frontier drains.
Sides == {2, 3}

\* On either grid the goal and a board one move from it, two cell writes
\* apart; and the 2 x 2 goal with two tiles exchanged, which has no solution.
AppSeeds ==
    {<<<<1, 2, 3>>, <<4, 5, None>>, <<7, 8, 6>>>>, FINISHED3,
     <<<<1, None>>, <<3, 2>>>>, FINISHED2,
     <<<<2, 1>>, <<3, None>>>>}

AppBoards == Within(AppSeeds, AppScramble)

\* The digit keys pressed: 0 empties the cell, 2 fills it, and 6 fills it on the
\* 3 x 3 board and is a digit the handler ignores on the 2 x 2 board.
Digits == {0, 2, 6}

\* ---------------------------------------------------------------- main.rs

\* Board::is_valid: each label exactly once and exactly one blank.
is_valid(board) ==
    LET count(v) == Cardinality({k \in 0 .. LastLabel(board) :
                                    At(board, ScanPos(board, k)) = v})
    IN  /\ \A v \in 1 .. LastLabel(board) : count(v) = 1
        /\ count(None) = 1

InvalidBoardMsg == "Invalid Board: Must contain 1-8 unique & 1 empty."
NoSolutionMsg == "No solution found for this configuration."
PanickedMsg == "Search thread panicked."

\* App::new(), but for input_board, which InitApp draws.
AppNew ==
    /\ mode = "Input"
    /\ cursor_pos = <<0, 0>>
    /\ error_msg = <<>>
    /\ rx_result = <<>>
    /\ spinner_idx = 0
    /\ solution_path = <<>>
    /\ current_step = 0
    /\ threads = <<>>
    /\ chans = <<>>
    /\ edits = 0
    /\ exited = FALSE

\* Dropping the Receiver that rx_result holds, if any.
DropRx(cs, rx) == IF rx = <<>> THEN cs ELSE [cs EXCEPT ![rx[1]].rx = FALSE]

WriteCell(board, pos, value) == [board EXCEPT ![pos[1] + 1][pos[2] + 1] = value]

appStill == UNCHANGED <<side, searchVars>>

\* AppMode::Input, 'q' or Esc: break out of the main loop.  main returns and
\* the process ends: the App, the channels and the detached threads are gone.
InputKeyQuit ==
    /\ ~exited /\ mode = "Input"
    /\ exited' = TRUE
    /\ mode' = "Input"
    /\ input_board' = FINISHED
    /\ cursor_pos' = <<0, 0>>
    /\ error_msg' = <<>>
    /\ rx_result' = <<>>
    /\ spinner_idx' = 0
    /\ solution_path' = <<>>
    /\ current_step' = 0
    /\ threads' = <<>>
    /\ chans' = <<>>
    /\ edits' = 0
    /\ appStill

\* AppMode::Input, the four arrow keys.
InputKeyArrow ==
    /\ ~exited /\ mode = "Input"
    /\ \E key \in {"Left", "Right", "Up", "Down"} :
        cursor_pos' =
            CASE key = "Left" ->
                    IF cursor_pos[2] > 0 THEN <<cursor_pos[1], cursor_pos[2] - 1>> ELSE cursor_pos
              [] key = "Right" ->
                    IF cursor_pos[2] < Side(input_board) - 1
                    THEN <<cursor_pos[1], cursor_pos[2] + 1>> ELSE cursor_pos
              [] key = "Up" ->
                    IF cursor_pos[1] > 0 THEN <<cursor_pos[1] - 1, cursor_pos[2]>> ELSE cursor_pos
              [] key = "Down" ->
                    IF cursor_pos[1] < Side(input_board) - 1
                    THEN <<cursor_pos[1] + 1, cursor_pos[2]>> ELSE cursor_pos
    /\ UNCHANGED <<mode, input_board, error_msg, rx_result, spinner_idx,
                   solution_path, current_step, threads, chans, edits, exited>>
    /\ appStill

\* The boards the keys may produce: the cell writes are drawn from those that
\* leave a board of AppBoards, or a board that is not valid one cell write from
\* each of two boards of AppBoards (the boards typed on the way between them).
Typable(board) ==
    \/ board \in AppBoards
    \/ /\ ~is_valid(board)
       /\ \E a \in AppBoards, b \in AppBoards :
            /\ a # b /\ Side(a) = Side(board) /\ Side(b) = Side(board)
            /\ Cardinality({p \in Positions(board) : At(board, p) # At(a, p)}) = 1
            /\ Cardinality({p \in Positions(board) : At(board, p) # At(b, p)}) = 1

\* AppMode::Input, a digit: 1 to 8 fill the cell, 0 empties it, 9 does nothing.
InputKeyDigit ==
    /\ ~exited /\ mode = "Input"
    /\ \E digit \in Digits :
        LET written ==
                IF digit \in 1 .. LastLabel(input_board)
                THEN WriteCell(input_board, cursor_pos, digit)
                ELSE IF digit = 0 THEN WriteCell(input_board, cursor_pos, None)
                ELSE input_board
        IN  /\ written # input_board => edits < MaxEdits /\ Typable(written)
            /\ input_board' = written
            /\ edits' = IF written # input_board THEN edits + 1 ELSE edits
    /\ UNCHANGED <<mode, cursor_pos, error_msg, rx_result, spinner_idx,
                   solution_path, current_step, threads, chans, exited>>
    /\ appStill

\* AppMode::Input, Backspace, Delete or the space bar: empty the cell.
InputKeyClear ==
    /\ ~exited /\ mode = "Input"
    /\ LET written == WriteCell(input_board, cursor_pos, None)
       IN  /\ written # input_board => edits < MaxEdits /\ Typable(written)
           /\ input_board' = written
           /\ edits' = IF written # input_board THEN edits + 1 ELSE edits
    /\ UNCHANGED <<mode, cursor_pos, error_msg, rx_result, spinner_idx,
                   solution_path, current_step, threads, chans, exited>>
    /\ appStill

\* Enter without the is_valid() test: every board is handed to a worker.
InputKeyEnterUnchecked ==
    /\ ~exited /\ mode = "Input"
    /\ Len(threads) < MaxSearches
    /\ mode' = "Searching"
    /\ error_msg' = <<>>
    /\ chans' = Append(DropRx(chans, rx_result), [buf |-> <<>>, rx |-> TRUE,
                                                   tx |-> TRUE, sent |-> 0])
    /\ rx_result' = <<Len(chans) + 1>>
    /\ threads' = Append(threads, [pc |-> "search", board |-> input_board,
                                   result |-> NoPath])
    /\ UNCHANGED <<input_board, cursor_pos, spinner_idx, solution_path, current_step,
                   edits, exited>>
    /\ appStill

\* AppMode::Input, Enter: validate, and start a search on a worker thread.
InputKeyEnter ==
    /\ ~exited /\ mode = "Input"
    /\ IF is_valid(input_board)
       THEN /\ Len(threads) < MaxSearches
            /\ mode' = "Searching"
            /\ error_msg' = <<>>
            /\ chans' = Append(DropRx(chans, rx_result), [buf |-> <<>>, rx |-> TRUE,
                                                               tx |-> TRUE, sent |-> 0])
            /\ rx_result' = <<Len(chans) + 1>>
            /\ threads' = Append(threads, [pc |-> "search", board |-> input_board,
                                           result |-> NoPath])
       ELSE /\ error_msg' = <<InvalidBoardMsg>>
            /\ UNCHANGED <<mode, chans, rx_result, threads>>
    /\ UNCHANGED <<input_board, cursor_pos, spinner_idx, solution_path, current_step,
                   edits, exited>>
    /\ appStill

\* AppMode::Searching, 'q': back to the editor; the thread keeps running.
SearchingKeyQ ==
    /\ ~exited /\ mode = "Searching"
    /\ mode' = "Input"
    /\ rx_result' = <<>>
    /\ chans' = DropRx(chans, rx_result)
    /\ UNCHANGED <<input_board, cursor_pos, error_msg, spinner_idx, solution_path,
                   current_step, threads, edits, exited>>
    /\ appStill

\* AppMode::Result, 'q' or Esc: back to the editor.
ResultKeyQuit ==
    /\ ~exited /\ mode = "Result"
    /\ mode' = "Input"
    /\ UNCHANGED <<input_board, cursor_pos, error_msg, rx_result, spinner_idx,
                   solution_path, current_step, threads, chans, edits, exited>>
    /\ appStill

\* AppMode::Result, Left: the previous step.
ResultKeyLeft ==
    /\ ~exited /\ mode = "Result"
    /\ current_step' = IF current_step > 0 THEN current_step - 1 ELSE current_step
    /\ UNCHANGED <<mode, input_board, cursor_pos, error_msg, rx_result, spinner_idx,
                   solution_path, threads, chans, edits, exited>>
    /\ appStill

\* usize::MAX, cut to the integers TLC has: all that matters of it is that it
\* is above every step.
USIZE_MAX == 2147483647

\* solution_path.len() - 1 in usize: on an empty path the subtraction wraps
\* (a release build; a debug build panics there).
LastStep(path) == IF Len(path) >= 1 THEN Len(path) - 1 ELSE USIZE_MAX

\* Right without the test against the last step.
ResultKeyRightUnchecked ==
    /\ ~exited /\ mode = "Result"
    /\ current_step' = current_step + 1
    /\ UNCHANGED <<mode, input_board, cursor_pos, error_msg, rx_result, spinner_idx,
                   solution_path, threads, chans, edits, exited>>
    /\ appStill

\* AppMode::Result, Right: the next step.
ResultKeyRight ==
    /\ ~exited /\ mode = "Result"
    /\ current_step' = IF current_step < LastStep(solution_path)
                       THEN current_step + 1 ELSE current_step
    /\ UNCHANGED <<mode, input_board, cursor_pos, error_msg, rx_result, spinner_idx,
                   solution_path, threads, chans, edits, exited>>
    /\ appStill

\* Any key the mode's match ignores.
KeyIgnored ==
    /\ ~exited
    /\ UNCHANGED appVars
    /\ appStill

\* on_tick without self.solution_path = path: the path shown is the one before.
TickKeepPath ==
    /\ ~exited
    /\ IF mode = "Searching"
       THEN /\ spinner_idx' = (spinner_idx + 1) % 4
            /\ IF rx_result # <<>>
               THEN LET i == rx_result[1]
                    IN  IF chans[i].buf # <<>>
                        THEN \* Ok(result)
                             LET result == Head(chans[i].buf)
                             IN  /\ IF result.some
                                    THEN /\ solution_path' = solution_path
                                         /\ current_step' = 0
                                         /\ mode' = "Result"
                                         /\ UNCHANGED error_msg
                                    ELSE /\ error_msg' = <<NoSolutionMsg>>
                                         /\ mode' = "Input"
                                         /\ UNCHANGED <<solution_path, current_step>>
                                 /\ rx_result' = <<>>
                                 /\ chans' = [chans EXCEPT ![i].buf = Tail(@), ![i].rx = FALSE]
                        ELSE IF chans[i].tx
                        THEN \* Err(TryRecvError::Empty)
                             UNCHANGED <<mode, error_msg, rx_result, solution_path,
                                         current_step, chans>>
                        ELSE \* Err(TryRecvError::Disconnected)
                             /\ error_msg' = <<PanickedMsg>>
                             /\ mode' = "Input"
                             /\ rx_result' = <<>>
                             /\ chans' = DropRx(chans, rx_result)
                             /\ UNCHANGED <<solution_path, current_step>>
               ELSE UNCHANGED <<mode, error_msg, rx_result, solution_path,
                                current_step, chans>>
       ELSE UNCHANGED <<mode, error_msg, rx_result, spinner_idx, solution_path,
                        current_step, chans>>
    /\ UNCHANGED <<input_board, cursor_pos, threads, edits, exited>>
    /\ appStill

\* App::on_tick.
Tick ==
    /\ ~exited
    /\ IF mode = "Searching"
       THEN /\ spinner_idx' = (spinner_idx + 1) % 4
            /\ IF rx_result # <<>>
               THEN LET i == rx_result[1]
                    IN  IF chans[i].buf # <<>>
                        THEN \* Ok(result)
                             LET result == Head(chans[i].buf)
                             IN  /\ IF result.some
                                    THEN /\ solution_path' = result.path
                                         /\ current_step' = 0
                                         /\ mode' = "Result"
                                         /\ UNCHANGED error_msg
                                    ELSE /\ error_msg' = <<NoSolutionMsg>>
                                         /\ mode' = "Input"
                                         /\ UNCHANGED <<solution_path, current_step>>
                                 /\ rx_result' = <<>>
                                 /\ chans' = [chans EXCEPT ![i].buf = Tail(@), ![i].rx = FALSE]
                        ELSE IF chans[i].tx
                        THEN \* Err(TryRecvError::Empty)
                             UNCHANGED <<mode, error_msg, rx_result, solution_path,
                                         current_step, chans>>
                        ELSE \* Err(TryRecvError::Disconnected)
                             /\ error_msg' = <<PanickedMsg>>
                             /\ mode' = "Input"
                             /\ rx_result' = <<>>
                             /\ chans' = DropRx(chans, rx_result)
                             /\ UNCHANGED <<solution_path, current_step>>
               ELSE UNCHANGED <<mode, error_msg, rx_result, solution_path,
                                current_step, chans>>
       ELSE UNCHANGED <<mode, error_msg, rx_result, spinner_idx, solution_path,
                        current_step, chans>>
    /\ UNCHANGED <<input_board, cursor_pos, threads, edits, exited>>
    /\ appStill

\* The worker thread, first statement: let result = a_star::search(board_clone).
WorkerSearch ==
    /\ ~exited
    /\ \E i \in 1 .. Len(threads) :
        /\ threads[i].pc = "search"
        /\ threads' = [threads EXCEPT ![i].pc = "send", ![i].result = search(threads[i].board)]
    /\ UNCHANGED <<mode, input_board, cursor_pos, error_msg, rx_result, spinner_idx,
                   solution_path, current_step, chans, edits, exited>>
    /\ appStill

\* The worker thread, second statement: tx.send(result).unwrap().  send fails
\* when the Receiver was dropped, and unwrap then panics; either way the thread
\* ends and its Sender is dropped.
WorkerSend ==
    /\ ~exited
    /\ \E i \in 1 .. Len(threads) :
        /\ threads[i].pc = "send"
        /\ IF chans[i].rx
           THEN /\ chans' = [chans EXCEPT ![i].buf = Append(@, threads[i].result),
                                          ![i].sent = @ + 1,
                                          ![i].tx = FALSE]
                /\ threads' = [threads EXCEPT ![i].pc = "done"]
           ELSE /\ chans' = [chans EXCEPT ![i].tx = FALSE]
                /\ threads' = [threads EXCEPT ![i].pc = "panicked"]
    /\ UNCHANGED <<mode, input_board, cursor_pos, error_msg, rx_result, spinner_idx,
                   solution_path, current_step, edits, exited>>
    /\ appStill

\* ------------------------------------------------- what the claims speak of

\* Breadth-first layers of the legal moves from a goal board: the pairs
\* <<board, least number of moves>>, to depth max or until no board is new.
RECURSIVE Layers(_, _, _, _)
Layers(seen, layer, k, max) ==
    IF layer = {} \/ k > max THEN {}
    ELSE {<<b, k>> : b \in layer}
         \cup Layers(seen \cup layer,
                     UNION {LegalMoves(b) : b \in layer} \ (seen \cup layer), k + 1, max)

\* The least move counts of the 3 x 3 start boards, and of every 2 x 2 board
\* that has a solution (24 bounds the depth of a space of 24 boards).
MovesTable3 == Layers({}, {FINISHED3}, 0, MaxScramble)
MovesTable2 == Layers({}, {FINISHED2}, 0, 24)
MovesTable == IF side = 3 THEN MovesTable3 ELSE MovesTable2

\* The table covers the board: the goal is reachable from it (within MaxScramble
\* moves on the 3 x 3 board).
Solvable(board) == \E e \in MovesTable : e[1] = board
MinMoves(board) == (CHOOSE e \in MovesTable : e[1] = board)[2]

\* Each label once and one blank.
WellFormed(board) ==
    /\ \A v \in 1 .. (Side(board) * Side(board) - 1) :
            Cardinality({p \in Positions(board) : At(board, p) = v}) = 1
    /\ Cardinality({p \in Positions(board) : At(board, p) = None}) = 1

Returned == ret # <<>>

SeqToSet(seq) == {seq[i] : i \in 1 .. Len(seq)}

\* C1: search on a start board that has a solution returns Some(path) of exactly
\* the least number of moves plus one boards; on the goal board itself the path
\* is the start board alone.
C1_Optimal ==
    (Returned /\ Solvable(starting_board)) =>
        /\ ret[1].some
        /\ Len(ret[1].path) = MinMoves(starting_board) + 1
        /\ starting_board = FINISHED => ret[1].path = <<starting_board>>

C1_Witness ==
    /\ Returned /\ side = 3 /\ ret[1].some
    /\ MinMoves(starting_board) = MaxScramble
    /\ Len(ret[1].path) = MaxScramble + 1
    /\ Cardinality(visited) > MaxScramble

\* C2: a returned path is not empty, starts at the start board, ends at the goal
\* board, and each board of it is one legal move from the one before.
C2_ValidPath ==
    (Returned /\ ret[1].some) =>
        LET path == ret[1].path
        IN  /\ Len(path) >= 1
            /\ path[1] = starting_board
            /\ path[Len(path)] = FINISHED
            /\ \A i \in 1 .. Len(path) - 1 : path[i + 1] \in LegalMoves(path[i])

C2_Witness ==
    /\ Returned /\ side = 3 /\ ret[1].some
    /\ Len(ret[1].path) >= 4
    /\ ret[1].path[Len(ret[1].path)] = FINISHED3

InGrid(board, p) ==
    /\ p[1] >= 0 /\ p[1] < Side(board)
    /\ p[2] >= 0 /\ p[2] < Side(board)

RECURSIVE Exchanged(_, _, _)
Exchanged(board, targets, i) ==
    IF i > Len(targets) THEN <<>>
    ELSE IF InGrid(board, targets[i])
         THEN <<[board EXCEPT ![BlankAt(board)[1] + 1][BlankAt(board)[2] + 1] =
                                    At(board, targets[i]),
                              ![targets[i][1] + 1][targets[i][2] + 1] = None]>>
              \o Exchanged(board, targets, i + 1)
         ELSE Exchanged(board, targets, i + 1)

UpLeftRightDown(board) ==
    LET e == BlankAt(board)
    IN  Exchanged(board, <<<<e[1] - 1, e[2]>>, <<e[1], e[2] - 1>>,
                           <<e[1], e[2] + 1>>, <<e[1] + 1, e[2]>>>>, 1)

DifferingCells(a, b) == {p \in Positions(a) : At(a, p) # At(b, p)}

SuccessorsAsClaimed(board) ==
    LET next == get_possible_next_states(board)
    IN  /\ next = UpLeftRightDown(board)
        /\ Len(next) >= 2 /\ Len(next) <= 4
        /\ \A i \in 1 .. Len(next) :
            /\ WellFormed(next[i])
            /\ Cardinality(DifferingCells(board, next[i])) = 2
            /\ BlankAt(board) \in DifferingCells(board, next[i])
            /\ BlankAt(next[i]) \in DifferingCells(board, next[i])

\* C4: the successors of every expanded board are the blank's exchanges with its
\* neighbours in the grid, in the order up, left, right, down: two to four
\* well-formed boards, each differing from the board in the two cells exchanged.
C4_Successors ==
    \A board \in visited \cup {starting_board} : SuccessorsAsClaimed(board)

\* Expanded boards with the blank in a corner, on an edge and in the centre.
C4_Witness ==
    /\ side = 3
    /\ \E a \in visited, b \in visited, c \in visited :
        /\ Len(get_possible_next_states(a)) = 2
        /\ Len(get_possible_next_states(b)) = 3
        /\ Len(get_possible_next_states(c)) = 4

\* The boards the search holds: the start board, those in the frontier and those
\* expanded.
BoardsHeld == {starting_board} \cup {s.board : s \in BagToSet(queue)} \cup visited

\* C5: distance to the goal never exceeds the least number of moves to the goal.
C5_Admissible ==
    \A board \in BoardsHeld :
        Solvable(board) => distance(board, FINISHED) <= MinMoves(board)

\* A board whose distance is exactly its least number of moves, and one on which
\* it is less.
C5_Witness ==
    /\ side = 3
    /\ \E a \in BoardsHeld, b \in BoardsHeld :
        /\ Solvable(a) /\ distance(a, FINISHED3) = MinMoves(a) /\ MinMoves(a) >= 3
        /\ Solvable(b) /\ distance(b, FINISHED3) < MinMoves(b)

\* C6: whichever of the equal greatest states each pop takes, search returns the
\* kind of result, and a path of the length, that the run of search with the
\* fixed choice returns.
C6_Reproducible ==
    Returned =>
        /\ ret[1].some = search(starting_board).some
        /\ Len(ret[1].path) = Len(search(starting_board).path)

\* A returned path other than that of the fixed choice, of the same length.
C6_Witness ==
    /\ Returned /\ ret[1].some
    /\ ret[1].path # search(starting_board).path
    /\ Len(ret[1].path) = Len(search(starting_board).path)

\* The boards distance is compared on: the start board, the goal, the board
\* popped last and its successors.
Compared ==
    {starting_board, FINISHED}
    \cup (IF current = <<>> THEN {}
          ELSE {current[1].board} \cup SeqToSet(get_possible_next_states(current[1].board)))

\* C10: distance from a board to itself is 0, and distance is symmetric.
C10_ZeroAndSymmetric ==
    \A a \in Compared :
        /\ distance(a, a) = 0
        /\ \A b \in Compared : distance(a, b) = distance(b, a)

\* A popped board and one of its successors, both four or more from the start.
C10_Witness ==
    /\ current # <<>>
    /\ \E b \in SeqToSet(get_possible_next_states(current[1].board)) :
        /\ distance(current[1].board, starting_board) >= 4
        /\ distance(b, starting_board) >= 4
        /\ distance(starting_board, b) = distance(b, starting_board)
        /\ distance(b, b) = 0

\* The application's threads and their channels.
Threads == 1 .. Len(threads)

\* The fields of App a worker's result can reach.
shown == <<mode, error_msg, rx_result, solution_path, current_step, input_board,
           cursor_pos, spinner_idx>>

\* C7: a worker whose search was abandoned (its Receiver dropped before it
\* sends) ends normally when it delivers its result, and changes nothing of the
\* application's state.
C7_AbandonedWorkerEndsNormally ==
    [][\A i \in Threads :
          (/\ Len(threads') >= i
           /\ threads[i].pc = "send" /\ ~chans[i].rx
           /\ threads'[i].pc # "send")
          => (threads'[i].pc = "done" /\ UNCHANGED shown)]_vars

\* The messages part of C8: a channel carries at most one message, none before
\* its thread's search completed, and one once its thread has ended.
OneMessageEach ==
    \A i \in Threads :
        /\ chans[i].sent <= 1
        /\ threads[i].pc = "search" => chans[i].sent = 0
        /\ threads[i].pc \in {"done", "panicked"} => chans[i].sent = 1

\* The tick part of C8: a tick (the spinner turns) that leaves Searching mode
\* has received the message, shows it, and has cleared the receiver.
TickLeavesByReceiving ==
    (mode = "Searching" /\ spinner_idx' # spinner_idx /\ mode' # "Searching") =>
        /\ rx_result # <<>>
        /\ chans[rx_result[1]].buf # <<>>
        /\ LET result == Head(chans[rx_result[1]].buf)
           IN  IF result.some
               THEN mode' = "Result" /\ solution_path' = result.path
               ELSE mode' = "Input" /\ error_msg' = <<NoSolutionMsg>>
        /\ rx_result' = <<>>

\* C8: each started search sends exactly one message on its own channel, and
\* only after search has completed; a tick leaves Searching mode only by
\* receiving that message, to Result mode with the path or to Input mode with
\* the 'no solution' error, and clears the receiver.
C8_OneShotHandoff == [][OneMessageEach' /\ TickLeavesByReceiving]_vars

\* C9: every board handed to search is well-formed; Enter on a board that is
\* not starts no worker, stays in Input mode, leaves the board as it is and sets
\* the validation error.
C9_ValidatedAtBoundary ==
    [][/\ \A i \in 1 .. Len(threads') : WellFormed(threads'[i].board)
       /\ (InputKeyEnter /\ ~WellFormed(input_board)) =>
            /\ threads' = threads
            /\ mode' = "Input"
            /\ input_board' = input_board
            /\ error_msg' = <<InvalidBoardMsg>>]_vars

\* One search was started, and Enter on a later board that is not well-formed
\* was refused.
C9_Witness ==
    /\ Len(threads) = 1
    /\ WellFormed(threads[1].board)
    /\ ~WellFormed(input_board)
    /\ mode = "Input"
    /\ error_msg = <<InvalidBoardMsg>>

\* The frontier, the state popped last and its distance to the goal.
Frontier == BagToSet(queue)
Popped == current[1]
H(state) == distance(state.board, FINISHED)

\* A step that pops: every step of the loop but the one that finds the queue empty.
Pops == queue # EmptyBag /\ current' # current

\* A state of the frontier that is not a successor pushed when state was expanded.
Older(state, t) ==
    Len(t.path) # Len(state.path) + 1 \/ SubSeq(t.path, 1, Len(state.path)) # state.path

\* C11: every state popped is in the frontier and has the least f of the frontier
\* at that moment, and among the states of that f the least distance to the goal.
C11_PopOrder ==
    [][Pops =>
        /\ current'[1] \in Frontier
        /\ \A t \in Frontier :
            /\ current'[1].f <= t.f
            /\ current'[1].f = t.f => H(current'[1]) <= H(t)]_vars

\* A pop that left behind an older state of the same f and a greater distance,
\* and one of a greater f.
C11_Witness ==
    /\ current # <<>> /\ side = 3
    /\ \E t \in Frontier, u \in Frontier :
        /\ Older(Popped, t) /\ t.f = Popped.f /\ H(t) > H(Popped)
        /\ Older(Popped, u) /\ u.f > Popped.f

\* C17: every state placed in the frontier has a path from the start board to
\* its board, g = the path's length - 1 and f = g + distance(board, goal); the
\* seed has the path [start], g = 0 and f = distance(start, goal).
C17_SearchState ==
    /\ current = <<>> =>
            queue = SetToBag({[board |-> starting_board, path |-> <<starting_board>>,
                               g |-> 0, f |-> distance(starting_board, FINISHED)]})
    /\ \A s \in Frontier \cup SeqToSet(current) :
        /\ Len(s.path) >= 1
        /\ s.path[1] = starting_board
        /\ s.path[Len(s.path)] = s.board
        /\ s.g = Len(s.path) - 1
        /\ s.f = s.g + distance(s.board, FINISHED)

\* A frontier holding states four moves from the start, after the seed was popped.
C17_Witness ==
    /\ current # <<>> /\ side = 3
    /\ \E s \in Frontier : s.g >= 4 /\ s.f > s.g /\ Len(s.path) = s.g + 1

\* C18: the f of the states popped never decreases from one pop to the next,
\* and no state is pushed with an f below that of the state being expanded.
C18_MonotoneF ==
    [][Pops =>
        /\ current # <<>> => current'[1].f >= current[1].f
        /\ \A s \in BagToSet(queue') : s \notin Frontier => s.f >= current'[1].f]_vars

\* A pop of a greater f than the pop before it, with successors pushed at the
\* popped state's f and above it.
C18_Witness ==
    /\ current # <<>> /\ side = 3
    /\ Popped.f > distance(starting_board, FINISHED3)
    /\ \E s \in Frontier, t \in Frontier :
        /\ ~Older(Popped, s) /\ s.f = Popped.f
        /\ ~Older(Popped, t) /\ t.f > Popped.f

\* The least number of legal moves from one board to another, by breadth-first
\* layers from the first; -1 if the second is never reached.
RECURSIVE MovesFrom(_, _, _, _)
MovesFrom(seen, layer, target, k) ==
    IF target \in layer THEN k
    ELSE IF layer = {} THEN -1
    ELSE MovesFrom(seen \cup layer,
                   UNION {LegalMoves(b) : b \in layer} \ (seen \cup layer), target, k + 1)

LeastMoves(from, to) == MovesFrom({}, {from}, to, 0)

\* C12: a state popped on a board not yet visited has g = the least number of
\* moves from the start board to its board; a state popped on a visited board,
\* which is discarded, has no smaller g than that.
C12_FirstExpansionFinal ==
    [][Pops =>
        IF current'[1].board \notin visited
        THEN current'[1].g = LeastMoves(starting_board, current'[1].board)
        ELSE current'[1].g >= LeastMoves(starting_board, current'[1].board)]_vars

\* A board three or more moves from the start popped first, with a longer entry
\* for a board already visited still in the frontier.
C12_Witness ==
    /\ current # <<>> /\ side = 3
    /\ Popped.g >= 3
    /\ Popped.g = LeastMoves(starting_board, Popped.board)
    /\ \A t \in Frontier : Older(Popped, t) => t.board # Popped.board \/ t.g >= Popped.g
    /\ \E t \in Frontier :
        t.board \in visited /\ t.g > LeastMoves(starting_board, t.board)

\* The states a step pushed, and the states an expansion of state is to push:
\* one for each successor of its board, visited or not.
Pushed == {s \in BagToSet(queue') : s \notin Frontier}
SuccessorStates(state) ==
    {[board |-> nb, path |-> Append(state.path, nb), g |-> state.g + 1,
      f |-> state.g + 1 + distance(nb, FINISHED)] :
        nb \in SeqToSet(get_possible_next_states(state.board))}

\* C13: a popped state on a visited board pushes nothing and changes neither
\* visited nor the result; a board is expanded only when it is not visited, and
\* is then added to visited, so each is expanded at most once and visited holds
\* exactly the expanded boards; an expansion pushes a state for every successor,
\* with no test against visited.
C13_LazyDedup ==
    [][Pops =>
        IF current'[1].board \in visited
        THEN /\ queue' = queue (-) SetToBag({current'[1]})
             /\ visited' = visited
             /\ ret' = ret
        ELSE IF ret' # ret
        THEN Pushed = {} /\ visited' = visited
        ELSE /\ visited' = visited \cup {current'[1].board}
             /\ Pushed = SuccessorStates(current'[1])
             /\ queue' = (queue (-) SetToBag({current'[1]})) (+) SetToBag(Pushed)]_vars

\* A discarded pop (on a visited board, nothing pushed) while the frontier holds
\* another state on a visited board.
C13_Witness ==
    /\ current # <<>> /\ Running
    /\ Popped.board \in visited
    /\ \A t \in Frontier : Older(Popped, t)
    /\ \E t \in Frontier : t.board \in visited
    /\ Cardinality(visited) >= 3

\* C14: for every board the search holds and every successor of it, the
\* distances of the two to the goal differ by exactly 1, so that
\* distance(B, goal) <= 1 + distance(S, goal).
C14_ConsistencyStep ==
    \A board \in BoardsHeld :
        \A next \in SeqToSet(get_possible_next_states(board)) :
            /\ Abs(distance(next, FINISHED) - distance(board, FINISHED)) = 1
            /\ distance(board, FINISHED) <= 1 + distance(next, FINISHED)

\* An expanded board four or more from the goal with a successor nearer to the
\* goal and one farther from it.
C14_Witness ==
    /\ side = 3
    /\ \E board \in visited :
        /\ distance(board, FINISHED3) >= 4
        /\ \E a, b \in SeqToSet(get_possible_next_states(board)) :
            /\ distance(a, FINISHED3) = distance(board, FINISHED3) - 1
            /\ distance(b, FINISHED3) = distance(board, FINISHED3) + 1

\* Every board of the search: in the frontier, in visited, in a path of a
\* frontier state or of the state popped last.
BoardsOfSearch ==
    BoardsHeld \cup UNION {SeqToSet(s.path) : s \in Frontier \cup SeqToSet(current)}

\* C15: with a well-formed start board, every board in the frontier, in the
\* visited set and in any frontier state's path has exactly one blank and each
\* label exactly once.
C15_WellFormedBoards ==
    WellFormed(starting_board) => \A board \in BoardsOfSearch : WellFormed(board)

\* Boards off the start board in all three places.
C15_Witness ==
    /\ side = 3 /\ WellFormed(starting_board)
    /\ Cardinality(visited) >= 4
    /\ \E s \in Frontier :
        /\ Len(s.path) >= 5
        /\ s.board \notin visited
        /\ \E i \in 2 .. Len(s.path) - 1 : s.path[i] \in visited /\ WellFormed(s.path[i])

\* Every unwrap of a lookup on the board succeeds: each label and the blank is found.
LookupsSucceed(board) ==
    /\ \A number \in 1 .. LastLabel(board) :
        find_number(board, number) # <<>> /\ find_number(FINISHED, number) # <<>>
    /\ find_empty_cell(board) # <<>>

\* The boards the next iteration of the loop looks labels up on: those of the
\* frontier, and the successors an expansion builds from them.
BoardsLookedUp ==
    BoardsHeld \cup UNION {SeqToSet(get_possible_next_states(s.board)) : s \in Frontier}

\* C16: no step of search on a well-formed start board panics: every lookup of
\* a label and of the blank finds its cell; while search has not returned it
\* has a state to pop or an empty queue to return None on, and what it returns
\* is Some(path) or None.
C16_NoFatalCondition ==
    /\ \A board \in BoardsLookedUp : LookupsSucceed(board)
    /\ Running => queue = EmptyBag \/ Greatest(queue) # {}
    /\ Returned => ret[1] = NoPath \/ (ret[1].some /\ Len(ret[1].path) >= 1)

\* A search that returned None and one that returned a path, after lookups on
\* every board of a component.
C16_Witness ==
    /\ Returned
    /\ \/ ret[1] = NoPath /\ Cardinality(visited) = 12
       \/ ret[1].some /\ side = 3 /\ Cardinality(visited) >= 5
    /\ \A board \in visited : LookupsSucceed(board)

\* The search started last: the one the latest Enter on a valid board started.
Latest == Len(threads)

\* C19: a path shown in Result mode is the result of the search started last and
\* begins with the board that search was started on; nothing is ever taken from
\* or put in the channel of a search whose Receiver was dropped, so the result
\* of an abandoned search is never received.
C19_NoStaleResult ==
    [][/\ mode' = "Result" =>
            /\ Len(threads') >= 1
            /\ Len(solution_path') >= 1
            /\ solution_path'[1] = threads'[Len(threads')].board
       /\ (mode = "Searching" /\ mode' = "Result") =>
            /\ rx_result = <<Latest>>
            /\ solution_path' = threads[Latest].result.path
       /\ \A i \in Threads :
            (Len(threads') >= i /\ ~chans[i].rx) => chans'[i].buf = chans[i].buf]_vars

\* The first search was abandoned after its result was sent, the board was
\* edited to another one, and the path shown is that of the second search.
C19_Witness ==
    /\ mode = "Result" /\ side = 3
    /\ Len(threads) = 2
    /\ threads[1].board # threads[2].board
    /\ threads[1].pc = "done" /\ ~chans[1].rx /\ chans[1].buf # <<>>
    /\ solution_path = threads[2].result.path
    /\ solution_path[1] = threads[2].board
    /\ solution_path # threads[1].result.path

\* C20: in Result mode solution_path is not empty and current_step is an index
\* of it, 0 <= current_step <= len - 1, whatever Left and Right keys came.
C20_ResultIndexInBounds ==
    mode = "Result" =>
        /\ Len(solution_path) >= 1
        /\ 0 <= current_step
        /\ current_step <= Len(solution_path) - 1
        /\ LastStep(solution_path) = Len(solution_path) - 1

\* Right was pressed up to the last board of a path of two boards.
C20_Witness ==
    /\ mode = "Result" /\ side = 3
    /\ Len(solution_path) >= 2
    /\ current_step = Len(solution_path) - 1

\* --------------------------------------------------------- specifications

\* One call of search, on a start board of the bounded set.
Init ==
    /\ side \in Sides
    /\ \E board \in Starts(side) :
        /\ SearchInit(board)
        /\ input_board = board
    /\ AppNew

Next == PopStale \/ PopGoal \/ PopExpand \/ Exhausted

Spec == Init /\ [][Next]_vars

\* The calls of search on the grid whose frontier drains.
InitSmall == side = 2 /\ Init

\* The loop of search runs on: no iteration waits for anything.
FairSpec == InitSmall /\ [][Next]_vars /\ WF_vars(Next)

\* The application.  The board being edited is any board of the bounded set:
\* the keys can write every board from the one App::new() starts with.
InitApp ==
    /\ side \in Sides
    /\ input_board \in AppBoards
    /\ Side(input_board) = side
    /\ AppNew
    /\ starting_board = input_board
    /\ queue = EmptyBag
    /\ visited = {}
    /\ current = <<>>
    /\ ret = <<>>

NextApp ==
    \/ InputKeyQuit \/ InputKeyArrow \/ InputKeyDigit \/ InputKeyClear \/ InputKeyEnter
    \/ SearchingKeyQ
    \/ ResultKeyQuit \/ ResultKeyLeft \/ ResultKeyRight
    \/ KeyIgnored
    \/ Tick
    \/ WorkerSearch \/ WorkerSend

SpecApp == InitApp /\ [][NextApp]_vars

====
